---- MODULE Spec2Model ----
(***************************************************************************)
(* Durable delayed-reminder scheduler of src/server.js.                    *)
(*                                                                         *)
(* One Node.js process at a time runs against a MongoDB collection of      *)
(* Reminder documents (the store) and the Slack API (the transport).  The  *)
(* store and the messages already delivered survive the process; timers,   *)
(* the scheduledTimeouts map, the executeReminder calls in flight and the  *)
(* request being served die with it.                                       *)
(*                                                                         *)
(* Time is what `new Date()` returns, counted in whole days (every rule    *)
(* offset is a number of days).  An async function is a process whose      *)
(* position is the await it is suspended at; one action is the resumption  *)
(* of one await together with all the synchronous code that follows it up  *)
(* to the next await.                                                      *)
(***************************************************************************)
EXTENDS Integers, Sequences, FiniteSets, Bags, TLC

(***************************************************************************)
(* Bounds of the exploration.                                              *)
(***************************************************************************)
MaxNow == 1
MaxEvents == 1
MaxStarts == 2
MaxFaults == 2
MaxInFlight == 1

(***************************************************************************)
(* Program and platform constants.                                         *)
(***************************************************************************)
\* Largest delay setTimeout accepts, in ms (2^31 - 1); a larger delay is set to 1 ms.
TIMEOUT_MAX == 2147483647
\* luxon's plus({days: 1}) in the utc zone, in ms.
DayMs == 86400000

onboardingRules ==
  << [name |-> "create-email",      offsetDays |-> -7],
     [name |-> "create-bamboo",     offsetDays |-> -3],
     [name |-> "send-welcome",      offsetDays |-> -7],
     [name |-> "setup-device",      offsetDays |-> -4],
     [name |-> "activate-card",     offsetDays |-> -4],
     [name |-> "day-1-orientation", offsetDays |-> 0],
     [name |-> "verify-systems",    offsetDays |-> 0],
     [name |-> "team-intro",        offsetDays |-> 0],
     [name |-> "paperwork-signing", offsetDays |-> 2],
     [name |-> "upload-docs",       offsetDays |-> 30] >>

offboardingRules ==
  << [name |-> "terminate-bamboo",   offsetDays |-> 0],
     [name |-> "deactivate-email",   offsetDays |-> 0],
     [name |-> "deactivate-slack",   offsetDays |-> 0],
     [name |-> "collect-hardware",   offsetDays |-> 0],
     [name |-> "final-payroll",      offsetDays |-> 30],
     [name |-> "upload-termination", offsetDays |-> 30] >>

(***************************************************************************)
(* Inputs of an event.                                                     *)
(***************************************************************************)
Anchors == {0, 4}
Names == {"Jane"}

\* System.Tags, a string, as the sequence of the pieces it is written with:
\* tag names and the separator "; ".  No piece other than "OnBoarding"
\* contains "OnBoarding", and no two pieces put together do.
TagValues ==
  { << "OffBoarding" >>, << >>, << "HR", "; ", "OnBoarding" >> }

NoReq == [pc |-> "none"]
NoTime == -1000

\* No event has been received yet.
NoIntake ==
  [tags |-> << >>, dated |-> FALSE, start |-> NoTime, outcome |-> "none",
   saved |-> {}, sent |-> {}]

VARIABLES
  now,                \* the clock, in days
  proc,               \* position of the process: down, connecting, loading, loaded, listening
  shutting,           \* graceful() is awaiting mongoose.connection.close()
  queryAt,            \* the `new Date()` of the recovery query in flight
  enumerated,         \* this process's recovery query returned its result
  store,              \* the reminders collection: _id -> document
  nextId,             \* the next _id
  scheduledTimeouts,  \* keys of the scheduledTimeouts map
  timers,             \* the runtime's armed timers: _id -> instant the timer is due
  execs,              \* bag of executeReminder calls in flight
  req,                \* the POST /create-item request being served
  sendCalls,          \* _id -> calls of the transport made for the reminder
  delivered,          \* _id -> calls of the transport that succeeded
  faults,             \* failures of the store and of Slack so far
  starts,             \* processes started so far
  events,             \* events received so far
  unhandled,          \* a promise was rejected with no handler
  cleared,            \* keys graceful() found in scheduledTimeouts in this process
  invoked,            \* _id -> calls of executeReminder made directly by a caller
  intake,             \* the last event received: its inputs, outcome and effects
  arms                \* _id -> timers armed for the reminder by this process

vars == << now, proc, shutting, queryAt, enumerated, store, nextId,
           scheduledTimeouts, timers, execs, req, sendCalls, delivered,
           faults, starts, events, unhandled, cleared, invoked, intake,
           arms >>

(***************************************************************************)
(* Documents and store operations.                                         *)
(***************************************************************************)
NoError == ""

\* new Reminder({name, slackId, ruleName, message, scheduledFor}) with the schema defaults.
Reminder(name, slackId, ruleName, scheduledFor, createdAt) ==
  [ name |-> name, slackId |-> slackId, ruleName |-> ruleName,
    message |-> << ruleName, name >>, scheduledFor |-> scheduledFor,
    executed |-> FALSE, executedAt |-> NoTime, createdAt |-> createdAt,
    error |-> NoError ]

Put(f, k, v) == [x \in DOMAIN f \cup {k} |-> IF x = k THEN v ELSE f[x]]
Remove(f, K) == [x \in DOMAIN f \ K |-> f[x]]

\* An update that sets the flag and leaves the date out.
MarkExecutedOnly(S, id, t) ==
  IF id \in DOMAIN S THEN [S EXCEPT ![id] = [@ EXCEPT !.executed = TRUE]] ELSE S

\* Reminder.findByIdAndUpdate(id, {executed: true, executedAt: new Date()})
MarkExecuted(S, id, t) ==
  IF id \in DOMAIN S
  THEN [S EXCEPT ![id] = [@ EXCEPT !.executed = TRUE, !.executedAt = t]]
  ELSE S

\* An update that records the error and moves the reminder to the next day.
RecordErrorAndReschedule(S, id, msg) ==
  IF id \in DOMAIN S
  THEN [S EXCEPT ![id] = [@ EXCEPT !.error = msg, !.scheduledFor = now + 1]]
  ELSE S

\* Reminder.findByIdAndUpdate(id, {error: error.message})
RecordError(S, id, msg) ==
  IF id \in DOMAIN S THEN [S EXCEPT ![id] = [@ EXCEPT !.error = msg]] ELSE S

\* Reminder.find({executed: false, scheduledFor: {$gte: t}})
PendingReminders(S, t) ==
  {id \in DOMAIN S : ~S[id].executed /\ S[id].scheduledFor >= t}

\* The check of executeReminder without `reminder.executed`.
MissingOnly(S, id) == id \notin DOMAIN S

\* `!reminder || reminder.executed` in executeReminder
AlreadyHandled(S, id) == id \notin DOMAIN S \/ S[id].executed

(***************************************************************************)
(* Timers.                                                                 *)
(***************************************************************************)
\* The delay the runtime gives a timer asked for `delay` days (delay > 0):
\* a delay above TIMEOUT_MAX ms becomes 1 ms, which is less than one day, so
\* the timer is due at the clock reading it was armed at.
TimerDelay(delay) == IF delay > TIMEOUT_MAX \div DayMs THEN 0 ELSE delay

\* A scheduleDelayedMessage that arms a timer whatever the delay.
NeverPastDue(scheduledFor, t) == FALSE

\* `delay <= 0` in scheduleDelayedMessage
PastDue(scheduledFor, t) == scheduledFor - t <= 0

\* A call of executeReminder(id), suspended at its first await.  `noop` notes
\* whether the reminder was missing or executed when the call was made; `at`
\* is the `new Date()` read when the update of executed is called.
Call(id, origin, S) ==
  [id |-> id, pc |-> "findById", origin |-> origin, err |-> NoError,
   at |-> NoTime, noop |-> (id \notin DOMAIN S \/ S[id].executed)]

Calls == BagToSet(execs)

\* scheduleDelayedMessage(reminder) for every reminder of `ids`, read from S:
\* a past-due reminder starts executeReminder (not awaited), any other gets a
\* timer and an entry of scheduledTimeouts.  The await that leads here is
\* answered only when the calls it starts fit in MaxInFlight.
scheduleDelayedMessage(ids, S) ==
  LET due   == {id \in ids : PastDue(S[id].scheduledFor, now)}
      armed == ids \ due
  IN /\ execs' = execs (+) SetToBag({Call(id, "direct", S) : id \in due})
     /\ BagCardinality(execs') <= MaxInFlight
     /\ timers' = [id \in DOMAIN timers \cup armed |->
                     IF id \in armed
                     THEN now + TimerDelay(S[id].scheduledFor - now)
                     ELSE timers[id]]
     /\ scheduledTimeouts' = scheduledTimeouts \cup armed
     /\ arms' = [id \in DOMAIN arms \cup armed |->
                   (IF id \in DOMAIN arms THEN arms[id] ELSE 0)
                   + (IF id \in armed THEN 1 ELSE 0)]

\* initializeApp() has resolved and its .then callback is queued: the callback
\* runs before any timer, I/O completion or signal handler.
Continuing == proc = "loaded"

\* The timer callback: executeReminder runs up to its first await.  A due
\* timer may run late: it waits while MaxInFlight calls are in flight.
TimerFire(id) ==
  /\ id \in DOMAIN timers
  /\ ~Continuing
  /\ now >= timers[id]
  /\ BagCardinality(execs) < MaxInFlight
  /\ timers' = Remove(timers, {id})
  /\ execs' = execs (+) SetToBag({Call(id, "timer", store)})
  /\ UNCHANGED << now, proc, shutting, queryAt, enumerated, store, nextId,
                  scheduledTimeouts, req, sendCalls, delivered, faults,
                  starts, events, unhandled, cleared,
                  invoked, intake, arms >>

(***************************************************************************)
(* executeReminder, one action per await.                                  *)
(***************************************************************************)
Fault == faults < MaxFaults /\ faults' = faults + 1
NoFault == faults' = faults

Move(e, pc, err) ==
  execs' = (execs (-) SetToBag({e})) (+) SetToBag({[e EXCEPT !.pc = pc, !.err = err]})

\* executeReminder returns; the timer callback then deletes the map entry.
Return(e) ==
  /\ execs' = execs (-) SetToBag({e})
  /\ scheduledTimeouts' =
       IF e.origin = "timer" THEN scheduledTimeouts \ {e.id} ELSE scheduledTimeouts
  /\ unhandled' = unhandled

\* What a process loses when it ends.
ProcessGone ==
  /\ proc' = "down"
  /\ shutting' = FALSE
  /\ queryAt' = NoTime
  /\ enumerated' = FALSE
  /\ scheduledTimeouts' = {}
  /\ timers' = << >>
  /\ execs' = EmptyBag
  /\ req' = NoReq
  /\ cleared' = {}
  /\ arms' = << >>

\* executeReminder rejects: the timer callback's delete is not reached,
\* nothing handles the rejection, and the runtime ends the process with exit
\* code 1 before any other callback runs.
Reject(e) ==
  /\ ProcessGone
  /\ unhandled' = TRUE

\* await Reminder.findById(reminderId)
ExecFindById(e) ==
  /\ e \in Calls /\ e.pc = "findById"
  /\ \/ /\ NoFault
        /\ IF AlreadyHandled(store, e.id)
           THEN Return(e)
           ELSE Move(e, "send", NoError) /\ UNCHANGED << scheduledTimeouts, unhandled >>
     \/ /\ Fault
        /\ Move(e, "catch", "StoreError")
        /\ UNCHANGED << scheduledTimeouts, unhandled >>
  /\ UNCHANGED << now, proc, shutting, queryAt, enumerated, store, nextId,
                  timers, req, sendCalls, delivered, starts, events, cleared,
                  invoked, intake, arms >>

\* await sendDirectMessageToUser(reminder.slackId, reminder.message); when it
\* resolves, findByIdAndUpdate is called with executedAt: new Date()
ExecSend(e) ==
  /\ e \in Calls /\ e.pc = "send"
  /\ sendCalls' = [sendCalls EXCEPT ![e.id] = @ + 1]
  /\ \/ /\ NoFault
        /\ delivered' = [delivered EXCEPT ![e.id] = @ + 1]
        /\ execs' = (execs (-) SetToBag({e}))
                       (+) SetToBag({[e EXCEPT !.pc = "update", !.at = now]})
     \/ /\ Fault
        /\ delivered' = delivered
        /\ Move(e, "catch", "TransportError")
  /\ UNCHANGED << now, proc, shutting, queryAt, enumerated, store, nextId,
                  scheduledTimeouts, timers, req, starts, events, unhandled,
                  cleared,
                  invoked, intake, arms >>

\* await Reminder.findByIdAndUpdate(reminderId, {executed: true, executedAt: new Date()})
ExecUpdate(e) ==
  /\ e \in Calls /\ e.pc = "update"
  /\ \/ /\ NoFault
        /\ store' = MarkExecuted(store, e.id, e.at)
        /\ Return(e)
     \/ /\ Fault
        /\ store' = store
        /\ Move(e, "catch", "StoreError")
        /\ UNCHANGED << scheduledTimeouts, unhandled >>
  /\ UNCHANGED << now, proc, shutting, queryAt, enumerated, nextId, timers,
                  req, sendCalls, delivered, starts, events, cleared,
                  invoked, intake, arms >>

\* catch: await Reminder.findByIdAndUpdate(reminderId, {error: error.message})
ExecCatch(e) ==
  /\ e \in Calls /\ e.pc = "catch"
  /\ \/ /\ NoFault
        /\ store' = RecordError(store, e.id, e.err)
        /\ Return(e)
        /\ UNCHANGED << proc, shutting, queryAt, enumerated, timers, req,
                        cleared, arms >>
     \/ /\ Fault
        /\ store' = store
        /\ Reject(e)
  /\ UNCHANGED << now, nextId, sendCalls, delivered, starts, events, invoked,
                  intake >>

executeReminder(e) ==
  /\ ~Continuing
  /\ (ExecFindById(e) \/ ExecSend(e) \/ ExecUpdate(e) \/ ExecCatch(e))

(***************************************************************************)
(* Process start: initializeApp, connectToMongoDB, loadPendingReminders.    *)
(***************************************************************************)
\* `node server.js`: initializeApp() is called and awaits mongoose.connect.
Start ==
  /\ proc = "down"
  /\ starts < MaxStarts
  /\ starts' = starts + 1
  /\ proc' = "connecting"
  /\ UNCHANGED << now, shutting, queryAt, enumerated, store, nextId,
                  scheduledTimeouts, timers, execs, req, sendCalls, delivered,
                  faults, events, unhandled, cleared,
                  invoked, intake, arms >>

\* connectToMongoDB: connected, and loadPendingReminders issues its query; or
\* the connection failed and the process exits with status 1.
connectToMongoDB ==
  /\ proc = "connecting"
  /\ \/ /\ NoFault
        /\ proc' = "loading"
        /\ queryAt' = now
        /\ UNCHANGED << shutting, enumerated, scheduledTimeouts, timers, execs,
                        req, cleared, arms >>
     \/ /\ Fault
        /\ ProcessGone
  /\ UNCHANGED << now, store, nextId, sendCalls, delivered, starts, events,
                  unhandled, invoked, intake >>

\* loadPendingReminders: the query returns and every reminder found is
\* scheduled; or the query throws and the catch block logs the error.
loadPendingReminders ==
  /\ proc = "loading"
  /\ proc' = "loaded"
  /\ queryAt' = NoTime
  /\ \/ /\ NoFault
        /\ enumerated' = TRUE
        /\ scheduleDelayedMessage(PendingReminders(store, queryAt), store)
     \/ /\ Fault
        /\ enumerated' = FALSE
        /\ UNCHANGED << scheduledTimeouts, timers, execs, arms >>
  /\ UNCHANGED << now, shutting, store, nextId, req, sendCalls, delivered,
                  starts, events, unhandled, cleared, invoked, intake >>

\* initializeApp().then(() => app.listen(PORT, ...))
Listen ==
  /\ proc = "loaded"
  /\ proc' = "listening"
  /\ UNCHANGED << now, shutting, queryAt, enumerated, store, nextId,
                  scheduledTimeouts, timers, execs, req, sendCalls, delivered,
                  faults, starts, events, unhandled, cleared,
                  invoked, intake, arms >>

initializeApp == connectToMongoDB \/ loadPendingReminders \/ Listen

(***************************************************************************)
(* Process end: graceful shutdown and crash.                               *)
(***************************************************************************)
\* graceful() that empties the map and cancels no timer.
KeepTimers(T, keys) == T

\* clearTimeout(timeoutId) for every entry of scheduledTimeouts.
ClearTimeouts(T, keys) == Remove(T, keys)

\* SIGTERM or SIGINT: graceful() up to `await mongoose.connection.close()`.
\* A signal that arrives while an earlier graceful() is awaiting runs it again.
graceful ==
  /\ proc # "down"
  /\ ~Continuing
  /\ shutting' = TRUE
  /\ cleared' = cleared \cup scheduledTimeouts
  /\ timers' = ClearTimeouts(timers, scheduledTimeouts)
  /\ scheduledTimeouts' = {}
  /\ UNCHANGED << now, proc, queryAt, enumerated, store, nextId, execs, req,
                  sendCalls, delivered, faults, starts, events, unhandled,
                  invoked, intake, arms >>

\* The connection is closed (or closing it failed): process.exit.
Exit ==
  /\ shutting
  /\ ProcessGone
  /\ UNCHANGED << now, store, nextId, sendCalls, delivered, faults, starts,
                  events, unhandled, invoked, intake >>

\* The process is killed or the machine stops.
Crash ==
  /\ proc # "down"
  /\ ProcessGone
  /\ UNCHANGED << now, store, nextId, sendCalls, delivered, faults, starts,
                  events, unhandled, invoked, intake >>

\* The clock advances, whatever the process is doing or awaiting.
Tick ==
  /\ now < MaxNow
  /\ now' = now + 1
  /\ UNCHANGED << proc, shutting, queryAt, enumerated, store, nextId,
                  scheduledTimeouts, timers, execs, req, sendCalls, delivered,
                  faults, starts, events, unhandled, cleared,
                  invoked, intake, arms >>

(***************************************************************************)
(* POST /create-item.                                                      *)
(***************************************************************************)
Rules(category) == IF category = "OnBoarding" THEN onboardingRules ELSE offboardingRules

\* tags.includes(word), for a word that is one piece
Includes(tags, word) == \E i \in DOMAIN tags : tags[i] = word

\* `isOnboarding ? onboardingRules : offboardingRules`, from the tags.
Category(tags) ==
  IF Includes(tags, "OnBoarding") THEN "OnBoarding" ELSE "OffBoarding"

\* A rule loop that saves and schedules every rule.
NeverImmediate(rule) == FALSE

\* `rule.offsetDays === 0`
IsImmediate(rule) == rule.offsetDays = 0

\* The await the rule loop stops at in iteration i: the recipient lookup for
\* paperwork-signing, the direct send for a zero offset, the save otherwise;
\* `new Reminder(...)` sets createdAt before the save is awaited.
\* Past the last rule the response is sent and the request is over.
Enter(r, i) ==
  IF i > Len(Rules(r.category)) THEN NoReq
  ELSE LET rule == Rules(r.category)[i]
           pc   == IF rule.name = "paperwork-signing" THEN "lookupSigner"
                   ELSE IF IsImmediate(rule) THEN "send" ELSE "save"
       IN [r EXCEPT !.idx = i,
                    !.currentSlackId = r.slackId,
                    !.pc = pc,
                    !.createdAt = IF pc = "save" THEN now ELSE NoTime]

\* The outcome of the event once the handler has moved to request r.
Outcome(r) == IF r = NoReq THEN "done" ELSE "running"

\* The handler starts: the payload is read; without a date it throws and the
\* response is 500; with one it awaits getSlackUserIdByEmail(email).
Receive(tags, hasDate, anchor, name) ==
  /\ proc = "listening"
  /\ req = NoReq
  /\ events < MaxEvents
  /\ events' = events + 1
  /\ req' = IF hasDate
            THEN [pc |-> "lookup", category |-> Category(tags), start |-> anchor,
                  name |-> name, idx |-> 0, slackId |-> "", currentSlackId |-> "",
                  createdAt |-> NoTime]
            ELSE NoReq
  /\ intake' = [tags |-> tags, dated |-> hasDate,
                start |-> IF hasDate THEN anchor ELSE NoTime,
                outcome |-> IF hasDate THEN "running" ELSE "noDate",
                saved |-> {}, sent |-> {}]
  /\ UNCHANGED << now, proc, shutting, queryAt, enumerated, store, nextId,
                  scheduledTimeouts, timers, execs, sendCalls, delivered,
                  faults, starts, unhandled, cleared, invoked, arms >>

\* let slackId = await getSlackUserIdByEmail(email)
ReqLookup ==
  /\ req.pc = "lookup"
  /\ \/ /\ NoFault
        /\ req' = Enter([req EXCEPT !.slackId = "creator"], 1)
        /\ intake' = intake
     \/ /\ Fault
        /\ req' = NoReq
        /\ intake' = [intake EXCEPT !.outcome = "lookupFailed"]
  /\ UNCHANGED << now, proc, shutting, queryAt, enumerated, store, nextId,
                  scheduledTimeouts, timers, execs, sendCalls, delivered,
                  starts, events, unhandled, cleared, invoked, arms >>

\* currentSlackId = await getSlackUserIdByEmail('dminarolli@ritech.co')
ReqLookupSigner ==
  /\ req.pc = "lookupSigner"
  /\ \/ /\ NoFault
        /\ req' = IF IsImmediate(Rules(req.category)[req.idx])
                  THEN [req EXCEPT !.currentSlackId = "signer", !.pc = "send"]
                  ELSE [req EXCEPT !.currentSlackId = "signer", !.pc = "save",
                                   !.createdAt = now]
        /\ intake' = intake
     \/ /\ Fault
        /\ req' = NoReq
        /\ intake' = [intake EXCEPT !.outcome = "lookupFailed"]
  /\ UNCHANGED << now, proc, shutting, queryAt, enumerated, store, nextId,
                  scheduledTimeouts, timers, execs, sendCalls, delivered,
                  starts, events, unhandled, cleared, invoked, arms >>

\* await sendDirectMessageToUser(currentSlackId, message), for a zero offset
ReqSend ==
  /\ req.pc = "send"
  /\ \/ /\ NoFault
        /\ req' = Enter(req, req.idx + 1)
        /\ intake' = [intake EXCEPT
                        !.sent = @ \cup {Rules(req.category)[req.idx].name},
                        !.outcome = Outcome(req')]
     \/ /\ Fault
        /\ req' = NoReq
        /\ intake' = [intake EXCEPT !.outcome = "sendFailed"]
  /\ UNCHANGED << now, proc, shutting, queryAt, enumerated, store, nextId,
                  scheduledTimeouts, timers, execs, sendCalls, delivered,
                  starts, events, unhandled, cleared, invoked, arms >>

\* A `due` counted from the clock instead of the anchor date.
DueFromNow(start, offsetDays) == now + offsetDays

\* `due`: start.plus({days: rule.offsetDays || 0})
Due(start, offsetDays) == start + offsetDays

\* A save that resolves without writing the document.
LostSave(S, id, doc) == S

\* reminder.save(): the document is in the collection.
Save(S, id, doc) == Put(S, id, doc)

\* await reminder.save(), then scheduleDelayedMessage(reminder)
ReqSave ==
  /\ req.pc = "save"
  /\ \/ /\ NoFault
        /\ LET rule == Rules(req.category)[req.idx]
               doc  == Reminder(req.name, req.currentSlackId, rule.name,
                                Due(req.start, rule.offsetDays), req.createdAt)
           IN /\ store' = Save(store, nextId, doc)
              /\ scheduleDelayedMessage({nextId}, Put(store, nextId, doc))
        /\ nextId' = nextId + 1
        /\ sendCalls' = Put(sendCalls, nextId, 0)
        /\ delivered' = Put(delivered, nextId, 0)
        /\ req' = Enter(req, req.idx + 1)
        /\ intake' = [intake EXCEPT !.saved = @ \cup {nextId},
                                    !.outcome = Outcome(req')]
     \/ /\ Fault
        /\ req' = NoReq
        /\ intake' = [intake EXCEPT !.outcome = "saveFailed"]
        /\ UNCHANGED << store, nextId, scheduledTimeouts, timers, execs,
                        sendCalls, delivered, arms >>
  /\ UNCHANGED << now, proc, shutting, queryAt, enumerated, starts, events,
                  unhandled, cleared, invoked >>

createItem ==
  \/ \E tags \in TagValues, hasDate \in BOOLEAN, anchor \in Anchors, name \in Names :
       Receive(tags, hasDate, anchor, name)
  \/ ReqLookup \/ ReqLookupSigner \/ ReqSend \/ ReqSave

(***************************************************************************)
(* The program.                                                            *)
(***************************************************************************)
Init ==
  /\ now = 0
  /\ proc = "down"
  /\ shutting = FALSE
  /\ queryAt = NoTime
  /\ enumerated = FALSE
  /\ store = << >>
  /\ nextId = 1
  /\ scheduledTimeouts = {}
  /\ timers = << >>
  /\ execs = EmptyBag
  /\ req = NoReq
  /\ sendCalls = << >>
  /\ delivered = << >>
  /\ faults = 0
  /\ starts = 0
  /\ events = 0
  /\ unhandled = FALSE
  /\ cleared = {}
  /\ invoked = << >>
  /\ intake = NoIntake
  /\ arms = << >>

Next ==
  \/ Start
  \/ initializeApp
  \/ createItem
  \/ \E id \in DOMAIN timers : TimerFire(id)
  \/ \E e \in Calls : executeReminder(e)
  \/ graceful
  \/ Exit
  \/ Crash
  \/ Tick

Spec == Init /\ [][Next]_vars

(***************************************************************************)
(* executeReminder called directly, any number of times at once, on a      *)
(* store that holds pending and executed reminders: ids 1 and 2 are        *)
(* stored, id 3 is not.                                                    *)
(***************************************************************************)
MaxCalls == 2

StoredIds == {1, 2}
CallIds == {1, 2, 3}

\* A reminder as an earlier process left it: pending, or executed at day 0.
Stored(executed) ==
  [Reminder("Jane", "creator", "create-email", 0, 0)
     EXCEPT !.executed = executed, !.executedAt = IF executed THEN 0 ELSE NoTime]

InitExec ==
  /\ now = 0
  /\ proc = "listening"
  /\ shutting = FALSE
  /\ queryAt = NoTime
  /\ enumerated = TRUE
  /\ \E x \in [StoredIds -> BOOLEAN] : store = [id \in StoredIds |-> Stored(x[id])]
  /\ nextId = 3
  /\ scheduledTimeouts = {}
  /\ timers = << >>
  /\ execs = EmptyBag
  /\ req = NoReq
  /\ sendCalls = [id \in StoredIds |-> 0]
  /\ delivered = [id \in StoredIds |-> IF store[id].executed THEN 1 ELSE 0]
  /\ faults = 0
  /\ starts = 1
  /\ events = 0
  /\ unhandled = FALSE
  /\ cleared = {}
  /\ invoked = [id \in CallIds |-> 0]
  /\ intake = NoIntake
  /\ arms = << >>

\* executeReminder(id) is called and runs up to its first await.
Invoke(id) ==
  /\ invoked[1] + invoked[2] + invoked[3] < MaxCalls
  /\ invoked' = [invoked EXCEPT ![id] = @ + 1]
  /\ execs' = execs (+) SetToBag({Call(id, "caller", store)})
  /\ UNCHANGED << now, proc, shutting, queryAt, enumerated, store, nextId,
                  scheduledTimeouts, timers, req, sendCalls, delivered,
                  faults, starts, events, unhandled, cleared, intake,
                  arms >>

NextExec ==
  \/ \E id \in CallIds : Invoke(id)
  \/ \E e \in Calls : executeReminder(e)

SpecExec == InitExec /\ [][NextExec]_vars

(***************************************************************************)
(* A process started on a store of pending reminders due in the past, now  *)
(* and in the future, with a store and a transport that never fail and no  *)
(* crash.                                                                  *)
(***************************************************************************)
RecoveryIds == {1, 2, 3}
RecoveryDues == {-1, 0, 1, 30}

InitRecovery ==
  /\ now = 0
  /\ proc = "down"
  /\ shutting = FALSE
  /\ queryAt = NoTime
  /\ enumerated = FALSE
  /\ \E due \in [RecoveryIds -> RecoveryDues] :
       /\ \E past, present, future \in RecoveryIds :
             due[past] < 0 /\ due[present] = 0 /\ due[future] > 0
       /\ store = [id \in RecoveryIds |->
                     Reminder("Jane", "creator", "create-email", due[id], -8)]
  /\ nextId = 4
  /\ scheduledTimeouts = {}
  /\ timers = << >>
  /\ execs = EmptyBag
  /\ req = NoReq
  /\ sendCalls = [id \in RecoveryIds |-> 0]
  /\ delivered = [id \in RecoveryIds |-> 0]
  /\ faults = MaxFaults
  /\ starts = MaxStarts - 1
  /\ events = MaxEvents
  /\ unhandled = FALSE
  /\ cleared = {}
  /\ invoked = << >>
  /\ intake = NoIntake
  /\ arms = << >>

NextRecovery ==
  \/ Start
  \/ initializeApp
  \/ \E id \in DOMAIN timers : TimerFire(id)
  \/ \E e \in Calls : executeReminder(e)
  \/ Tick

\* The event loop runs every callback that is ready, and time passes.
SpecRecovery ==
  /\ InitRecovery
  /\ [][NextRecovery]_vars
  /\ WF_vars(Start)
  /\ WF_vars(initializeApp)
  /\ WF_vars(\E id \in DOMAIN timers : TimerFire(id))
  /\ WF_vars(\E e \in Calls : executeReminder(e))
  /\ WF_vars(Tick)

(***************************************************************************)
(* One process, from its start to its exit, with a store and a transport   *)
(* that never fail: events are received, timers fire, and SIGTERM or        *)
(* SIGINT ends it.                                                         *)
(***************************************************************************)
InitLifetime ==
  /\ now = 0
  /\ proc = "down"
  /\ shutting = FALSE
  /\ queryAt = NoTime
  /\ enumerated = FALSE
  /\ store = << >>
  /\ nextId = 1
  /\ scheduledTimeouts = {}
  /\ timers = << >>
  /\ execs = EmptyBag
  /\ req = NoReq
  /\ sendCalls = << >>
  /\ delivered = << >>
  /\ faults = MaxFaults
  /\ starts = MaxStarts - 1
  /\ events = 0
  /\ unhandled = FALSE
  /\ cleared = {}
  /\ invoked = << >>
  /\ intake = NoIntake
  /\ arms = << >>

NextLifetime ==
  \/ Start
  \/ initializeApp
  \/ createItem
  \/ \E id \in DOMAIN timers : TimerFire(id)
  \/ \E e \in Calls : executeReminder(e)
  \/ graceful
  \/ Exit
  \/ Tick

SpecLifetime == InitLifetime /\ [][NextLifetime]_vars

(***************************************************************************)
(* One process started on the store an earlier process left, then one      *)
(* offboarding event and timer fires, with one failure of the store or of  *)
(* Slack at any await.                                                     *)
(***************************************************************************)
LeftIds == {1}

\* A reminder an earlier process saved at day -8.
Left(due, executed) ==
  [Reminder("Jane", "creator", "create-email", due, -8)
     EXCEPT !.executed = executed, !.executedAt = IF executed THEN -1 ELSE NoTime]

\* Pending and due now, tomorrow or in 30 days, or executed yesterday.
LeftReminders == {Left(0, FALSE), Left(1, FALSE), Left(30, FALSE), Left(-1, TRUE)}

InitService ==
  /\ now = 0
  /\ proc = "down"
  /\ shutting = FALSE
  /\ queryAt = NoTime
  /\ enumerated = FALSE
  /\ store \in [LeftIds -> LeftReminders]
  /\ nextId = 2
  /\ scheduledTimeouts = {}
  /\ timers = << >>
  /\ execs = EmptyBag
  /\ req = NoReq
  /\ sendCalls = [id \in LeftIds |-> 0]
  /\ delivered = [id \in LeftIds |-> IF store[id].executed THEN 1 ELSE 0]
  /\ faults = MaxFaults - 1
  /\ starts = MaxStarts - 1
  /\ events = MaxEvents - 1
  /\ unhandled = FALSE
  /\ cleared = {}
  /\ invoked = << >>
  /\ intake = NoIntake
  /\ arms = << >>

\* The process runs on, no signal ends it, and the events it receives are
\* dated and tagged OffBoarding.
NextOffboarding ==
  \/ Start
  \/ initializeApp
  \/ \E anchor \in Anchors, name \in Names :
       Receive(<< "OffBoarding" >>, TRUE, anchor, name)
  \/ ReqLookup
  \/ ReqSend
  \/ ReqSave
  \/ \E id \in DOMAIN timers : TimerFire(id)
  \/ \E e \in Calls : executeReminder(e)
  \/ Tick

SpecOffboarding == InitService /\ [][NextOffboarding]_vars

(***************************************************************************)
(* The same process ended by SIGTERM or SIGINT at any moment, any number   *)
(* of times.                                                               *)
(***************************************************************************)
SpecShutdown == InitService /\ [][NextOffboarding \/ graceful \/ Exit]_vars

(***************************************************************************)
(* One process started on a reminder due at day 0, then one onboarding     *)
(* event and timer fires, with a store and a transport that never fail.    *)
(***************************************************************************)
InitOnboarding ==
  /\ now = 0
  /\ proc = "down"
  /\ shutting = FALSE
  /\ queryAt = NoTime
  /\ enumerated = FALSE
  /\ store = [id \in LeftIds |-> Left(0, FALSE)]
  /\ nextId = 2
  /\ scheduledTimeouts = {}
  /\ timers = << >>
  /\ execs = EmptyBag
  /\ req = NoReq
  /\ sendCalls = [id \in LeftIds |-> 0]
  /\ delivered = [id \in LeftIds |-> 0]
  /\ faults = MaxFaults
  /\ starts = MaxStarts - 1
  /\ events = MaxEvents - 1
  /\ unhandled = FALSE
  /\ cleared = {}
  /\ invoked = << >>
  /\ intake = NoIntake
  /\ arms = << >>

NextOnboarding ==
  \/ Start
  \/ initializeApp
  \/ \E anchor \in Anchors, name \in Names :
       Receive(<< "OnBoarding" >>, TRUE, anchor, name)
  \/ ReqLookup
  \/ ReqLookupSigner
  \/ ReqSend
  \/ ReqSave
  \/ \E id \in DOMAIN timers : TimerFire(id)
  \/ \E e \in Calls : executeReminder(e)
  \/ Tick

SpecOnboarding == InitOnboarding /\ [][NextOnboarding]_vars

(***************************************************************************)
(* One process started on the store an earlier process left, with no       *)
(* event: its timers fire and their calls end in every way, with up to two *)
(* failures of the store or of Slack, and SIGTERM or SIGINT at any moment. *)
(***************************************************************************)
InitTimers ==
  /\ now = 0
  /\ proc = "down"
  /\ shutting = FALSE
  /\ queryAt = NoTime
  /\ enumerated = FALSE
  /\ store \in [LeftIds -> LeftReminders]
  /\ nextId = 2
  /\ scheduledTimeouts = {}
  /\ timers = << >>
  /\ execs = EmptyBag
  /\ req = NoReq
  /\ sendCalls = [id \in LeftIds |-> 0]
  /\ delivered = [id \in LeftIds |-> IF store[id].executed THEN 1 ELSE 0]
  /\ faults = MaxFaults - 2
  /\ starts = MaxStarts - 1
  /\ events = MaxEvents
  /\ unhandled = FALSE
  /\ cleared = {}
  /\ invoked = << >>
  /\ intake = NoIntake
  /\ arms = << >>

NextTimers ==
  \/ Start
  \/ initializeApp
  \/ \E id \in DOMAIN timers : TimerFire(id)
  \/ \E e \in Calls : executeReminder(e)
  \/ graceful
  \/ Exit
  \/ Tick

SpecTimers == InitTimers /\ [][NextTimers]_vars

(***************************************************************************)
(* Claims.                                                                 *)
(***************************************************************************)
CallsFor(id) == {e \in Calls : e.id = id}

\* C1: over any sequence of intakes, timer fires, crashes, shutdowns and
\* restarts, the transport is invoked successfully at most once for any
\* persisted reminder, already when neither the store nor Slack ever fails.
C1_AtMostOnceDelivery ==
  faults = 0 => \A id \in DOMAIN delivered : delivered[id] <= 1

\* C2: executeReminder is never in progress for a reminder before its
\* scheduledFor instant, whatever the delay its timer was armed with.
C2_NotBeforeScheduledFor ==
  \A e \in Calls : e.id \in DOMAIN store => now >= store[e.id].scheduledFor

\* C3: when loadPendingReminders has completed at process start, every
\* reminder of the store that is not executed has an armed timer or a call of
\* executeReminder started for it.
C3_RecoveryHandsOverAll ==
  (proc = "loaded" /\ enumerated) =>
     \A id \in DOMAIN store :
        ~store[id].executed => (id \in DOMAIN timers \/ CallsFor(id) # {})

\* C7: a process whose recovery query failed never listens for events.
C7_NoListenWithoutEnumeration == proc = "listening" => enumerated

\* C8: once a delivery attempt for a reminder failed and the failure is
\* recorded, the reminder is not marked executed and the transport is never
\* called for it again, in this process or after a restart (the failed
\* delivery being the only failure so far).
C8_NoRetryAfterFailure ==
  [][\A id \in DOMAIN store :
        (faults = 1 /\ store[id].error = "TransportError" /\ ~store[id].executed) =>
           (sendCalls'[id] = sendCalls[id] /\ ~store'[id].executed)]_vars

\* C9: no error raised inside executeReminder escapes it as a rejection that
\* nothing handles.
C9_NoErrorEscapes == ~unhandled

\* C4: started on a store of pending reminders due in the past, now and in
\* the future, with a transport that never fails, the process executes every
\* one of them exactly once: when it listens and no timer and no call is
\* left, nothing is left pending.
C4_RecoveryExecutesAll ==
  (proc = "listening" /\ DOMAIN timers = {} /\ execs = EmptyBag) =>
     \A id \in DOMAIN store : store[id].executed /\ delivered[id] = 1

\* C5 as claimed: two calls of executeReminder for one id that overlap at
\* their awaits deliver once (store and transport never failing).
C5_OverlappingCallsDeliverOnce ==
  faults = 0 => \A id \in DOMAIN delivered : delivered[id] <= 1

\* The update of an earlier call is in the store and no call that read the
\* reminder before it is still about to send.
Committed(id) == store[id].executed /\ \A e \in CallsFor(id) : e.pc # "send"

\* C5 as amended: a call whose store read is answered after executed=true is
\* committed observes it and returns without calling the transport, so from
\* then on the transport is never called for the reminder again.
C5_CallAfterCommitSendsNothing ==
  [][\A id \in DOMAIN store :
        Committed(id) => (Committed(id)' /\ sendCalls'[id] = sendCalls[id])]_vars

\* Two calls were made for a pending reminder, both are over, one delivered.
C5_Witness ==
  \E id \in DOMAIN store :
     /\ id \in DOMAIN invoked /\ invoked[id] = 2
     /\ CallsFor(id) = {}
     /\ store[id].executed /\ sendCalls[id] = 1 /\ delivered[id] = 1

\* C6 as claimed: a call of executeReminder made when the reminder is missing
\* or executed calls no transport and leaves the store unchanged.
C6_NoOpWhenMissingOrExecuted ==
  [][\A e \in Calls :
        (e.noop /\ executeReminder(e)) => (sendCalls' = sendCalls /\ store' = store)]_vars

\* C6 as amended: such a call calls no transport, and changes nothing in the
\* store but the error field of its own reminder, and that only from the
\* catch block, after the store read threw.
C6_NoOpUnlessReadThrows ==
  [][\A e \in Calls :
        (e.noop /\ executeReminder(e)) =>
           /\ sendCalls' = sendCalls
           /\ DOMAIN store' = DOMAIN store
           /\ \A id \in DOMAIN store :
                 \/ store'[id] = store[id]
                 \/ /\ id = e.id /\ e.pc = "catch" /\ e.err = "StoreError"
                    /\ store'[id] = [store[id] EXCEPT !.error = "StoreError"]]_vars

\* A call on the missing id and a call on an executed reminder have returned,
\* with no transport call and the reminder as it was.
C6_Witness ==
  /\ DOMAIN invoked = CallIds
  /\ invoked[3] = 1 /\ invoked[1] = 1
  /\ execs = EmptyBag
  /\ store[1] = Stored(TRUE) /\ sendCalls[1] = 0

\* C10: once graceful() has run its synchronous part and awaits the close of
\* the connection, none of the entries it found in scheduledTimeouts is in the
\* map and none of their timers is armed, so none can start executeReminder;
\* the process exits only after that.
C10_ShutdownCancelsTimers ==
  shutting => (cleared \cap DOMAIN timers = {} /\ cleared \cap scheduledTimeouts = {})

\* graceful() cancelled the timer of a reminder that never fired.
C10_Witness ==
  /\ shutting
  /\ \E id \in cleared : ~store[id].executed /\ CallsFor(id) = {} /\ sendCalls[id] = 0

\* C11: when a recipient lookup of an event fails, the first one or the one
\* made for paperwork-signing inside the rule loop, no reminder of the event
\* has been saved and no message of the event has been sent (the failed
\* lookup being the only failure so far).
C11_LookupFailureLeavesNothing ==
  (intake.outcome = "lookupFailed" /\ faults = 1) =>
     (intake.saved = {} /\ intake.sent = {})

\* C12: an event without a date, or whose tags name neither OnBoarding nor
\* OffBoarding, saves no reminder, arms no timer and sends no message.
C12_MalformedEventRejected ==
  (\/ ~intake.dated
   \/ ~(Includes(intake.tags, "OnBoarding") \/ Includes(intake.tags, "OffBoarding"))) =>
     (intake.saved = {} /\ intake.sent = {})

\* C13: in every state of the store, a reminder has an executedAt exactly
\* when it is executed.
C13_ExecutedAtIffExecuted ==
  \A id \in DOMAIN store : (store[id].executedAt # NoTime) <=> store[id].executed

\* A reminder the event saved was executed and carries its date, and a
\* reminder whose attempt failed carries an error and no date.
C13_Witness ==
  \E a, b \in DOMAIN store :
     /\ a \in intake.saved /\ store[a].executed /\ store[a].executedAt = now
     /\ ~store[b].executed /\ store[b].error # NoError /\ store[b].executedAt = NoTime

\* The names of the rules of a table whose offset is zero.
SameDayRules(rules) ==
  {rules[i].name : i \in {j \in 1..Len(rules) : rules[j].offsetDays = 0}}

\* The iterations of the rule loop the last event has completed.
Passed ==
  IF req # NoReq /\ req.pc # "lookup" THEN 1..(req.idx - 1)
  ELSE IF intake.outcome = "done" THEN 1..Len(Rules(Category(intake.tags)))
  ELSE {}

\* C14: no reminder of the store and no timer comes from a rule with a zero
\* offset; the message of every such rule the loop has passed was sent
\* directly; every other rule the loop has passed has its reminder in the
\* store, and nothing is armed or executing that is not in the store.
C14_SameDayRuleNeverPersisted ==
  LET rules == Rules(Category(intake.tags))
  IN /\ \A id \in DOMAIN store :
           store[id].ruleName \notin
              SameDayRules(onboardingRules) \cup SameDayRules(offboardingRules)
     /\ \A i \in Passed :
           IF rules[i].offsetDays = 0
           THEN rules[i].name \in intake.sent
           ELSE \E id \in intake.saved : store[id].ruleName = rules[i].name
     /\ intake.sent \subseteq SameDayRules(rules)
     /\ (DOMAIN timers \cup scheduledTimeouts \cup {e.id : e \in Calls})
           \subseteq DOMAIN store

\* An onboarding event was expanded to its end: three messages sent directly,
\* seven reminders saved.
C14_Witness ==
  /\ intake.outcome = "done" /\ Category(intake.tags) = "OnBoarding"
  /\ Cardinality(intake.sent) = 3
  /\ Cardinality(intake.saved) = 7

\* C15: the scheduledFor of every reminder the event saved is the event's
\* date plus the offset of the reminder's rule, in whole days, whatever the
\* clock read when the event was received.
C15_DueIsAnchorPlusOffset ==
  LET rules == Rules(Category(intake.tags))
  IN \A id \in intake.saved :
        \A i \in 1..Len(rules) :
           rules[i].name = store[id].ruleName =>
              store[id].scheduledFor = intake.start + rules[i].offsetDays

\* An event dated day 4 and received on a later day than day 0 saved
\* create-email (offset -7) for day -3.
C15_Witness ==
  \E id \in intake.saved :
     /\ intake.start = 4
     /\ store[id].createdAt > 0
     /\ store[id].ruleName = "create-email"
     /\ store[id].scheduledFor = -3

\* C16: a reminder whose delay exceeds the largest delay of a timer is
\* carried by a chain of timers, and executeReminder is started only by the
\* last timer of the chain: no timer starts executeReminder for a reminder
\* with time left until its scheduledFor.
C16_EngineOnlyAtTerminalFire ==
  [][\A id \in DOMAIN timers :
        (id \in DOMAIN store /\ TimerFire(id)) => store[id].scheduledFor - now <= 0]_vars

\* C17: whenever the call of executeReminder made by a fired timer is over,
\* whatever its outcome, the timer callback goes on to its delete: the
\* reminder's key is not in scheduledTimeouts, and the call has not ended in
\* a rejection that skips the delete and ends the process.
C17_FiredEntryRemoved ==
  [][\A e \in Calls :
        (/\ e.origin = "timer"
         /\ executeReminder(e)
         /\ BagCardinality(execs') < BagCardinality(execs)) =>
           (/\ e.id \notin scheduledTimeouts'
            /\ proc' = proc
            /\ unhandled' = unhandled)]_vars

\* executeReminder was started for the reminder by scheduleDelayedMessage
\* itself, and this process has armed no timer and set no map entry for it.
StartedAtOnce(id) ==
  /\ \E e \in CallsFor(id) : e.origin = "direct" /\ e.pc = "findById"
  /\ id \notin DOMAIN timers
  /\ id \notin scheduledTimeouts
  /\ id \notin DOMAIN arms

\* C18: scheduleDelayedMessage, called after a save or by the recovery step
\* for a reminder whose scheduledFor is not after the clock, starts
\* executeReminder for it at once and arms no timer for it.
C18_PastDueStartsAtOnce ==
  [][/\ ReqSave
           => \A id \in DOMAIN store' \ DOMAIN store :
                 store'[id].scheduledFor - now <= 0 => StartedAtOnce(id)'
     /\ (loadPendingReminders /\ enumerated')
           => \A id \in PendingReminders(store, queryAt) :
                 store[id].scheduledFor - now <= 0 => StartedAtOnce(id)']_vars

\* The recovery step found a reminder due now and it was executed without a
\* timer, and a call started by the save of a past-due reminder is in flight.
C18_Witness ==
  /\ \E l \in LeftIds : store[l].scheduledFor = 0 /\ store[l].executedAt = 0
                         /\ l \notin DOMAIN arms
  /\ \E e \in Calls : e.origin = "direct" /\ e.id \in intake.saved
                       /\ store[e.id].scheduledFor < now /\ StartedAtOnce(e.id)

\* What a reminder is created with.
Created(doc) ==
  << doc.name, doc.slackId, doc.ruleName, doc.message, doc.scheduledFor,
     doc.createdAt >>

\* C19: no step removes a reminder or changes its name, slackId, ruleName,
\* message, scheduledFor or createdAt; a step of the recovery, the listen or
\* the shutdown changes nothing in the store.
C19_CreatedFieldsNeverChange ==
  [][/\ \A id \in DOMAIN store :
           id \in DOMAIN store' /\ Created(store'[id]) = Created(store[id])
     /\ (initializeApp \/ graceful \/ Exit) => store' = store]_vars

\* At shutdown, a reminder of the earlier process was executed by this one, and
\* the failed delivery of a reminder the event saved is recorded on it.
C19_Witness ==
  /\ shutting
  /\ \E l \in LeftIds : store[l].executed /\ store[l].executedAt >= 0
                         /\ store[l].createdAt = -8
  /\ \E id \in intake.saved : store[id].error = "TransportError"
                               /\ store[id].createdAt >= 0

\* C20: every key of scheduledTimeouts and every armed timer belongs to a
\* reminder that is in the store, and this process has armed at most one
\* timer for any reminder; a save that failed has left no timer behind.
C20_TimersOnlyForStoredOnce ==
  /\ scheduledTimeouts \subseteq DOMAIN store
  /\ DOMAIN timers \subseteq DOMAIN store
  /\ \A id \in DOMAIN arms : id \in DOMAIN store /\ arms[id] <= 1
  /\ intake.outcome = "saveFailed" => nextId \notin DOMAIN timers \cup scheduledTimeouts

\* A timer armed by the recovery step and a timer armed after a save are both
\* in the map, and a later save of the event has failed.
C20_Witness ==
  /\ intake.outcome = "saveFailed"
  /\ \E l \in LeftIds : l \in scheduledTimeouts /\ l \in DOMAIN timers /\ arms[l] = 1
  /\ \E id \in intake.saved : id \in scheduledTimeouts /\ id \in DOMAIN timers
                               /\ arms[id] = 1

====
